---- MODULE Spec2Model ----
(***************************************************************************)
(* A model of src/main.py: the browser automation run main() and the pure  *)
(* function compute_tomorrow_mmddyyyy().                                   *)
(*                                                                         *)
(* The body of the try block (lines 46-154) is the table Script, one entry *)
(* per statement, executed by the actions below.  Every call on the        *)
(* browser driver is one atomic step whose outcome is chosen by the        *)
(* environment: "ok", "timeout" (playwright TimeoutError) or "error" (any  *)
(* other subclass of Exception).  Text is modelled as a sequence of        *)
(* one-character strings, a date as the triple <<year, month, day>>.       *)
(***************************************************************************)
EXTENDS Integers, Sequences, FiniteSets, TLC

VARIABLES
    pc,          \* where main() is: "launch", "new_context", "new_page", "body",
                 \* "handler", "close_context", "close_browser", "log_done",
                 \* "returned" (main returned), "raised" (an exception left main),
                 \* and "date_fn"/"date_done" for the pure-function specification
    ip,          \* index in Script of the next statement of the try body
    exc,         \* the exception in flight: "none", "timeout" or "error"
    events,      \* history: every log call and driver/OS call issued, in order
    today,       \* the wall clock's calendar date (what datetime.now() reads)
    startDate,   \* history: the wall clock's date when main() was entered
    dayChanges,  \* how many midnights have passed since main() was entered
    tomorrow,    \* the local `tomorrow` (line 95); <<>> before it is computed
    computeDate, \* history: the wall clock's date when line 95 ran, <<>> before
    fromValue,   \* text in the from-date input, <<>> while unfilled
    toValue,     \* text in the to-date input, <<>> while unfilled
    dirExists,   \* whether the directory DOWNLOAD_DIR exists on disk
    dirCreated,  \* history: os.makedirs found the directory absent and made it
    download,    \* <<>> or <<F>>, F the captured download's suggested_filename
    saveArg,     \* <<>> or <<p>>, p the path given to download.save_as
    fileSaved    \* download.save_as returned: the file is on disk

vars == <<pc, ip, exc, events, today, startDate, dayChanges, tomorrow,
          computeDate, fromValue, toValue, dirExists, dirCreated, download,
          saveArg, fileSaved>>

----------------------------------------------------------------------------
(* Bounds of the model *)

\* calendar years of the wall clock are FirstYear..LastYear (plus the
\* century years named in DateYears)
FirstYear == 2023
LastYear == 2025
\* longest suggested filename the driver hands back
MaxNameLen == 2
\* most midnights that pass during one run
MaxDayChanges == 2

----------------------------------------------------------------------------
(* Text *)

\* DOWNLOAD_DIR = "./downloads"
DOWNLOAD_DIR == <<".", "/", "d", "o", "w", "n", "l", "o", "a", "d", "s">>

\* the literal "export_file" of line 141
EXPORT_FILE == <<"e", "x", "p", "o", "r", "t", "_", "f", "i", "l", "e">>

\* characters a suggested filename is made of in the model
NameChars == {"r", ".", "/"}

RECURSIVE SeqsUpTo(_)
SeqsUpTo(n) ==
    IF n = 0 THEN {<<>>}
    ELSE LET shorter == SeqsUpTo(n - 1)
         IN  shorter \cup {Append(s, c) : s \in {t \in shorter : Len(t) = n - 1},
                                          c \in NameChars}

\* the suggested filenames the driver may report
Names == SeqsUpTo(MaxNameLen)

DigitChar(n) == <<"0", "1", "2", "3", "4", "5", "6", "7", "8", "9">>[n + 1]

----------------------------------------------------------------------------
(* datetime arithmetic and formatting, as the library computes them for    *)
(* (datetime.now() + timedelta(days=1)).strftime("%m/%d/%Y") on line 34:   *)
(* the date goes to its proleptic Gregorian ordinal, one day is added, and *)
(* the ordinal is converted back.                                          *)

\* days in each month of a common year
DAYS_IN_MONTH == <<31, 28, 31, 30, 31, 30, 31, 31, 30, 31, 30, 31>>

\* days of a common year before the first of each month
DAYS_BEFORE_MONTH == <<0, 31, 59, 90, 120, 151, 181, 212, 243, 273, 304, 334>>

is_leap_century_blind(year) == year % 4 = 0

is_leap(year) == year % 4 = 0 /\ (year % 100 # 0 \/ year % 400 = 0)

days_before_year(year) ==
    LET y == year - 1
    IN  y * 365 + (y \div 4) - (y \div 100) + (y \div 400)

days_before_month(year, month) ==
    DAYS_BEFORE_MONTH[month] + (IF month > 2 /\ is_leap(year) THEN 1 ELSE 0)

\* date.toordinal(): 0001-01-01 is day 1
ymd2ord(date) ==
    days_before_year(date[1]) + days_before_month(date[1], date[2]) + date[3]

DI400Y == days_before_year(401)
DI100Y == days_before_year(101)
DI4Y == days_before_year(5)

\* date.fromordinal()
ord2ymd(ordinal) ==
    LET n0   == ordinal - 1
        n400 == n0 \div DI400Y
        r400 == n0 % DI400Y
        n100 == r400 \div DI100Y
        r100 == r400 % DI100Y
        n4   == r100 \div DI4Y
        r4   == r100 % DI4Y
        n1   == r4 \div 365
        n    == r4 % 365
        year == n400 * 400 + 1 + n100 * 100 + n4 * 4 + n1
        leapyear == n1 = 3 /\ (n4 # 24 \/ n100 = 3)
        leapday(m) == IF m > 2 /\ leapyear THEN 1 ELSE 0
        month0 == (n + 50) \div 32
        preceding0 == DAYS_BEFORE_MONTH[month0] + leapday(month0)
        month == IF preceding0 > n THEN month0 - 1 ELSE month0
        preceding ==
            IF preceding0 > n
            THEN preceding0 - (DAYS_IN_MONTH[month]
                               + (IF month = 2 /\ leapyear THEN 1 ELSE 0))
            ELSE preceding0
    IN  IF n1 = 4 \/ n100 = 4
        THEN <<year - 1, 12, 31>>
        ELSE <<year, month, n - preceding + 1>>

\* datetime + timedelta(days=days); the time of day is carried over unchanged
\* and strftime("%m/%d/%Y") does not print it
add_days(date, days) == ord2ymd(ymd2ord(date) + days)

\* a number in decimal, no padding
RECURSIVE Decimal(_)
Decimal(n) ==
    IF n < 10 THEN <<DigitChar(n)>>
    ELSE Append(Decimal(n \div 10), DigitChar(n % 10))

\* %m and %d: two digits, zero padded
TwoDigits(n) == <<DigitChar((n \div 10) % 10), DigitChar(n % 10)>>

strftime_unpadded(date) ==
    Decimal(date[2]) \o <<"/">> \o Decimal(date[3]) \o <<"/">> \o Decimal(date[1])

\* strftime("%m/%d/%Y")
strftime_mdY(date) ==
    TwoDigits(date[2]) \o <<"/">> \o TwoDigits(date[3]) \o <<"/">> \o Decimal(date[1])

compute_tomorrow_today(now) == strftime_mdY(add_days(now, 0))

\* compute_tomorrow_mmddyyyy(), with datetime.now() passed in as `now`
compute_tomorrow_mmddyyyy(now) == strftime_mdY(add_days(now, 1))

----------------------------------------------------------------------------
(* The calendar: what the wall clock does, independent of the library      *)

CalLeap(y) == (y % 400 = 0) \/ (y % 4 = 0 /\ y % 100 # 0)

CalDaysInMonth(y, m) ==
    IF m = 2 THEN (IF CalLeap(y) THEN 29 ELSE 28)
    ELSE IF m \in {4, 6, 9, 11} THEN 30 ELSE 31

\* the calendar day after `date`
NextDay(date) ==
    IF date[3] < CalDaysInMonth(date[1], date[2])
    THEN <<date[1], date[2], date[3] + 1>>
    ELSE IF date[2] < 12 THEN <<date[1], date[2] + 1, 1>>
    ELSE <<date[1] + 1, 1, 1>>

\* years the wall clock is drawn from: the bounded range, and century years
\* with and without a leap day
DateYears == (FirstYear .. LastYear) \cup {1999, 2000, 2100}

AllDates ==
    {dt \in (DateYears \X (1..12) \X (1..31)) : dt[3] <= CalDaysInMonth(dt[1], dt[2])}

\* the dates on which a run of main() starts in the model
StartDates ==
    {<<FirstYear, 6, 15>>, <<FirstYear + 1, 2, 28>>, <<FirstYear + 1, 12, 31>>}

----------------------------------------------------------------------------
(* Paths *)

path_join_concat(a, b) == a \o b

\* os.path.join(a, b) on POSIX: an absolute b discards a; otherwise b is
\* appended to a, after a "/" unless a is empty or ends in one
path_join(a, b) ==
    IF b # <<>> /\ Head(b) = "/" THEN b
    ELSE IF a = <<>> \/ a[Len(a)] = "/" THEN a \o b
    ELSE a \o <<"/">> \o b

\* download.suggested_filename or "export_file" (line 141)
suggested_or_default(name) == IF name = <<>> THEN EXPORT_FILE ELSE name

----------------------------------------------------------------------------
(* The try body, lines 46-154.  `line` is the source line of the statement, *)
(* `step` the step of the procedure it belongs to (1..15, in the numbering  *)
(* of the specification's section 4.1), `op` what the statement does.       *)

St(line, step, op) == [line |-> line, step |-> step, op |-> op]

Script ==
    << St(46, 1, "log"),        St(47, 1, "goto"),
       St(50, 2, "log"),        St(51, 2, "wait_for"),     St(52, 2, "fill"),
       St(53, 2, "fill"),       St(54, 2, "click"),
       St(56, 3, "log"),        St(57, 3, "wait_for"),     St(58, 3, "fill"),
       St(59, 3, "click"),
       St(62, 4, "log"),        St(63, 4, "wait_for"),     St(64, 4, "click"),
       St(67, 5, "log"),        St(68, 5, "wait_for"),     St(71, 5, "click"),
       St(72, 5, "click"),
       St(75, 6, "log"),        St(76, 6, "wait_for"),     St(79, 6, "click"),
       St(82, 7, "log"),        St(84, 7, "primary_wait"), St(85, 7, "primary_click"),
       St(87, 7, "log"),        St(88, 7, "fallback_click"),
       St(91, 8, "locate"),
       St(94, 9, "log"),        St(95, 9, "compute"),      St(97, 9, "locate"),
       St(98, 9, "locate"),     St(100, 9, "wait_for"),    St(101, 9, "wait_for"),
       St(104, 9, "scroll"),    St(105, 9, "scroll"),      St(106, 9, "fill_from"),
       St(107, 9, "fill_to"),   St(110, 9, "dispatch"),    St(111, 9, "dispatch"),
       St(116, 10, "log"),      St(117, 10, "click"),
       St(120, 11, "log"),      St(121, 11, "click"),
       St(124, 12, "log"),      St(125, 12, "click"),
       St(131, 13, "log"),      St(132, 13, "wait_for"),   St(136, 13, "makedirs"),
       St(137, 13, "download"),
       St(141, 14, "save_as"),  St(145, 14, "log"),        St(146, 14, "log"),
       St(147, 14, "log_size"),
       St(151, 15, "log"),      St(154, 15, "pause") >>

\* the index in Script of the statement on source line `line`
IndexOfLine(line) == CHOOSE i \in 1..Len(Script) : Script[i].line = line

\* statements that act on the page through the driver and may raise
PlainOps == {"goto", "wait_for", "fill", "click", "scroll", "dispatch", "pause"}

PageOps == PlainOps \cup {"primary_wait", "primary_click", "fallback_click",
                          "fill_from", "fill_to", "download"}

\* what a driver or OS call may do: return, raise playwright's TimeoutError,
\* or raise another Exception
Outcomes == {"ok", "timeout", "error"}

Event(line, step, op, res) == [line |-> line, step |-> step, op |-> op, res |-> res]

\* the statement the try body is about to execute
Cur == Script[ip]

AtBody(ops) == pc = "body" /\ Cur.op \in ops

Issue(res) == events' = Append(events, Event(Cur.line, Cur.step, Cur.op, res))

\* control passes to the statement at index `next`; falling off the end of
\* the try body enters the finally block (line 158)
GoTo(next) ==
    /\ exc' = exc
    /\ IF next > Len(Script)
       THEN pc' = "close_context" /\ ip' = ip
       ELSE pc' = pc /\ ip' = next

\* an exception raised in the try body reaches `except Exception` (line 156)
Raise(res) == pc' = "handler" /\ exc' = res /\ ip' = ip

AfterCall_swallow(res) == GoTo(ip + 1)

\* a statement of the try body returned or raised
AfterCall(res) == IF res = "ok" THEN GoTo(ip + 1) ELSE Raise(res)

CaughtByFallback_never(res) == FALSE

CaughtByFallback_any(res) == res # "ok"

\* `except PWTimeoutError` (line 86)
CaughtByFallback(res) == res = "timeout"

\* a statement of the inner try (lines 84-85) returned or raised
AfterPrimary(res, next) ==
    IF res = "ok" THEN GoTo(next)
    ELSE IF CaughtByFallback(res) THEN GoTo(IndexOfLine(87))
    ELSE Raise(res)

----------------------------------------------------------------------------
(* The run of main() *)

clock == <<today, startDate, dayChanges>>
dates == <<tomorrow, computeDate, fromValue, toValue>>
files == <<dirExists, dirCreated, download, saveArg, fileSaved>>

Init ==
    /\ pc = "launch"
    /\ ip = 1
    /\ exc = "none"
    /\ events = <<>>
    /\ today \in StartDates
    /\ startDate = today
    /\ dayChanges = 0
    /\ tomorrow = <<>>
    /\ computeDate = <<>>
    /\ fromValue = <<>>
    /\ toValue = <<>>
    /\ dirExists \in BOOLEAN
    /\ dirCreated = FALSE
    /\ download = <<>>
    /\ saveArg = <<>>
    /\ fileSaved = FALSE

\* lines 40-42 stand before the try: what they raise leaves main()
Acquire(at, line, op, next) ==
    /\ pc = at
    /\ \E res \in Outcomes :
          /\ events' = Append(events, Event(line, 0, op, res))
          /\ IF res = "ok" THEN pc' = next /\ exc' = exc
                           ELSE pc' = "raised" /\ exc' = res
    /\ UNCHANGED <<ip, clock, dates, files>>

\* browser = p.chromium.launch(headless=False)
Launch == Acquire("launch", 40, "launch", "new_context")

\* context = browser.new_context(accept_downloads=True)
NewContext == Acquire("new_context", 41, "new_context", "new_page")

\* page = context.new_page()
NewPage == Acquire("new_page", 42, "new_page", "body")

\* logging.info(...).  The call on line 46 passes an argument its message
\* has no placeholder for: formatting fails inside the handler, which reports
\* it on stderr and emits no line; nothing is raised to the caller.
LogInfo ==
    /\ AtBody({"log", "log_size"})
    /\ Issue(IF Cur.line = 46 THEN "format_error" ELSE "ok")
    /\ GoTo(ip + 1)
    /\ UNCHANGED <<clock, dates, files>>

\* page.goto / wait_for / fill / click / scroll_into_view_if_needed /
\* dispatch_event / wait_for_timeout
Interact ==
    /\ AtBody(PlainOps)
    /\ \E res \in Outcomes : Issue(res) /\ AfterCall(res)
    /\ UNCHANGED <<clock, dates, files>>

\* page.locator("#ui-id-3").wait_for(state="visible", timeout=10000)
PrimaryWait ==
    /\ AtBody({"primary_wait"})
    /\ \E res \in Outcomes : Issue(res) /\ AfterPrimary(res, ip + 1)
    /\ UNCHANGED <<clock, dates, files>>

\* page.click("#ui-id-3"), still inside the inner try
PrimaryClick ==
    /\ AtBody({"primary_click"})
    /\ \E res \in Outcomes : Issue(res) /\ AfterPrimary(res, IndexOfLine(91))
    /\ UNCHANGED <<clock, dates, files>>

\* page.get_by_role("tab", name=...).click(), in the except clause
FallbackClick ==
    /\ AtBody({"fallback_click"})
    /\ \E res \in Outcomes : Issue(res) /\ AfterCall(res)
    /\ UNCHANGED <<clock, dates, files>>

\* get_by_role(...) / locator(...).first build a locator: nothing is asked
\* of the page until the locator is used
Locate ==
    /\ AtBody({"locate"})
    /\ Issue("ok")
    /\ GoTo(ip + 1)
    /\ UNCHANGED <<clock, dates, files>>

\* tomorrow = compute_tomorrow_mmddyyyy()
ComputeTomorrow ==
    /\ AtBody({"compute"})
    /\ Issue("ok")
    /\ tomorrow' = compute_tomorrow_mmddyyyy(today)
    /\ computeDate' = today
    /\ GoTo(ip + 1)
    /\ UNCHANGED <<clock, fromValue, toValue, files>>

\* from_box.fill(tomorrow)
FillFrom ==
    /\ AtBody({"fill_from"})
    /\ \E res \in Outcomes :
          /\ Issue(res)
          /\ AfterCall(res)
          /\ fromValue' = IF res = "ok" THEN tomorrow ELSE fromValue
    /\ UNCHANGED <<clock, tomorrow, computeDate, toValue, files>>

\* to_box.fill(tomorrow)
FillTo ==
    /\ AtBody({"fill_to"})
    /\ \E res \in Outcomes :
          /\ Issue(res)
          /\ AfterCall(res)
          /\ toValue' = IF res = "ok" THEN tomorrow ELSE toValue
    /\ UNCHANGED <<clock, tomorrow, computeDate, fromValue, files>>

\* os.makedirs(DOWNLOAD_DIR, exist_ok=True): returns with the directory in
\* place, or raises OSError
MakeDirs ==
    /\ AtBody({"makedirs"})
    /\ \E res \in {"ok", "error"} :
          /\ Issue(res)
          /\ AfterCall(res)
          /\ dirExists' = IF res = "ok" THEN TRUE ELSE dirExists
          /\ dirCreated' = IF res = "ok" THEN ~dirExists ELSE dirCreated
    /\ UNCHANGED <<clock, dates, download, saveArg, fileSaved>>

\* with page.expect_download() as download_info: click Download;
\* download = download_info.value
Download ==
    /\ AtBody({"download"})
    /\ \E res \in Outcomes :
          /\ Issue(res)
          /\ AfterCall(res)
          /\ IF res = "ok" THEN \E name \in Names : download' = <<name>>
                           ELSE download' = download
    /\ UNCHANGED <<clock, dates, dirExists, dirCreated, saveArg, fileSaved>>

\* suggested = download.suggested_filename or "export_file";
\* filepath = os.path.join(DOWNLOAD_DIR, suggested); download.save_as(filepath)
SaveAs ==
    /\ AtBody({"save_as"})
    /\ \E res \in Outcomes :
          /\ Issue(res)
          /\ AfterCall(res)
          /\ saveArg' = <<path_join(DOWNLOAD_DIR, suggested_or_default(download[1]))>>
          /\ fileSaved' = (res = "ok")
    /\ UNCHANGED <<clock, dates, dirExists, dirCreated, download>>

\* except Exception as e: logging.exception("FAILED: %s", e)
Handler ==
    /\ pc = "handler"
    /\ events' = Append(events, Event(157, 0, "log", "ok"))
    /\ pc' = "close_context"
    /\ exc' = "none"
    /\ UNCHANGED <<ip, clock, dates, files>>

AfterClose_propagate(res, next) ==
    IF res = "ok" THEN pc' = next /\ exc' = exc
                  ELSE pc' = "raised" /\ exc' = res

\* a close call of the finally block returned, or raised into
\* `except Exception: pass` (lines 163-164)
AfterClose(res, next) ==
    /\ pc' = IF res = "ok" THEN next ELSE "log_done"
    /\ exc' = exc

\* context.close()
CloseContext ==
    /\ pc = "close_context"
    /\ \E res \in Outcomes :
          /\ events' = Append(events, Event(161, 0, "context_close", res))
          /\ AfterClose(res, "close_browser")
    /\ UNCHANGED <<ip, clock, dates, files>>

\* browser.close()
CloseBrowser ==
    /\ pc = "close_browser"
    /\ \E res \in Outcomes :
          /\ events' = Append(events, Event(162, 0, "browser_close", res))
          /\ AfterClose(res, "log_done")
    /\ UNCHANGED <<ip, clock, dates, files>>

\* logging.info("Done."), then main() returns
LogDone ==
    /\ pc = "log_done"
    /\ events' = Append(events, Event(165, 0, "log", "ok"))
    /\ pc' = "returned"
    /\ UNCHANGED <<ip, exc, clock, dates, files>>

Running == pc \in {"launch", "new_context", "new_page", "body", "handler",
                   "close_context", "close_browser", "log_done"}

\* midnight passes while main() runs
DayChange ==
    /\ Running
    /\ dayChanges < MaxDayChanges
    /\ today' = NextDay(today)
    /\ dayChanges' = dayChanges + 1
    /\ UNCHANGED <<pc, ip, exc, events, startDate, dates, files>>

\* one step of main()
Step ==
    \/ Launch \/ NewContext \/ NewPage
    \/ LogInfo \/ Interact
    \/ PrimaryWait \/ PrimaryClick \/ FallbackClick
    \/ Locate \/ ComputeTomorrow \/ FillFrom \/ FillTo
    \/ MakeDirs \/ Download \/ SaveAs
    \/ Handler \/ CloseContext \/ CloseBrowser \/ LogDone

Next == Step \/ DayChange

Spec == Init /\ [][Next]_vars

----------------------------------------------------------------------------
(* compute_tomorrow_mmddyyyy() on its own, for every date of AllDates *)

InitDate ==
    /\ pc = "date_fn"
    /\ ip = 1
    /\ exc = "none"
    /\ events = <<>>
    /\ today \in AllDates
    /\ startDate = today
    /\ dayChanges = 0
    /\ tomorrow = <<>>
    /\ computeDate = <<>>
    /\ fromValue = <<>>
    /\ toValue = <<>>
    /\ dirExists = FALSE
    /\ dirCreated = FALSE
    /\ download = <<>>
    /\ saveArg = <<>>
    /\ fileSaved = FALSE

CallComputeTomorrow ==
    /\ pc = "date_fn"
    /\ tomorrow' = compute_tomorrow_mmddyyyy(today)
    /\ computeDate' = today
    /\ pc' = "date_done"
    /\ UNCHANGED <<ip, exc, events, clock, fromValue, toValue, files>>

NextDate == CallComputeTomorrow

SpecDate == InitDate /\ [][NextDate]_vars

----------------------------------------------------------------------------
(* Reading the history *)

Failures == {"timeout", "error"}

\* positions in the history of the calls made on source line `line`
EventsAt(line) == {i \in DOMAIN events : events[i].line = line}

Count(line) == Cardinality(EventsAt(line))

Issued(line) == EventsAt(line) # {}

IssuedWith(line, res) == \E i \in EventsAt(line) : events[i].res = res

\* the newest event
Last == events[Len(events)]

\* positions of the statements of the try body / of the calls on the page
BodyEvents == {i \in DOMAIN events : events[i].step >= 1}
PageEvents == {i \in DOMAIN events : events[i].op \in PageOps}

\* a timeout of step 7's primary strategy: the step answers it itself
PrimaryTimeout(i) ==
    events[i].op \in {"primary_wait", "primary_click"} /\ events[i].res = "timeout"

\* positions at which a step of the procedure failed: a statement of the try
\* body raised and the step had no answer to it
StepFailures ==
    {i \in BodyEvents : events[i].res \in Failures /\ ~PrimaryTimeout(i)}

\* browser, context and page have been opened
Opened == IssuedWith(42, "ok")

InTeardown == pc \in {"close_context", "close_browser", "log_done", "returned"}

\* the finally block's own lines
TeardownLines == {161, 162, 165}

\* mm/dd/yyyy written out digit by digit
MMDDYYYY(date) ==
    << DigitChar(date[2] \div 10), DigitChar(date[2] % 10), "/",
       DigitChar(date[3] \div 10), DigitChar(date[3] % 10), "/",
       DigitChar(date[1] \div 1000), DigitChar((date[1] \div 100) % 10),
       DigitChar((date[1] \div 10) % 10), DigitChar(date[1] % 10) >>

----------------------------------------------------------------------------
(* Teardown *)

\* C1: in every run in which a step of the procedure raised, by the time
\* main() returns context.close has been called exactly once and
\* browser.close exactly once, whatever the close calls did.
C1_ClosesOnceEach ==
    (pc = "returned" /\ StepFailures # {}) => (Count(161) = 1 /\ Count(162) = 1)

\* C2: once browser, context and page are open no exception leaves main():
\* whatever a step or a close call raises, main() keeps a step to take until
\* it has returned, and it returns with "Done." logged exactly once, as the
\* last event.
C2_NoEscapeDoneLast ==
    /\ Opened => pc # "raised"
    /\ (Opened /\ pc # "returned") => ENABLED Step
    /\ Count(165) <= 1
    /\ pc = "returned" => (Count(165) = 1 /\ Last.line = 165)

\* a run whose step failed and whose context.close raised, returned
C2_Witness ==
    /\ pc = "returned"
    /\ StepFailures # {}
    /\ Issued(157)
    /\ IssuedWith(161, "error")

----------------------------------------------------------------------------
(* Step 7: the ACH-tab selector and its fallback *)

\* what may follow position i when the failure there went to the outer
\* handler: "FAILED" is logged next, then only the finally block's calls
HandledAt(i) ==
    /\ \A j \in BodyEvents : j <= i
    /\ i < Len(events) => events[i + 1].line = 157
    /\ \A j \in DOMAIN events : j > i + 1 => events[j].line \in TeardownLines
    /\ pc \in {"handler", "close_context", "close_browser", "log_done", "returned"}

\* C3: when the wait for #ui-id-3 times out, the role-based fallback click
\* is issued exactly once (never twice; once by the time the run is past
\* step 7); if it fails nothing else is tried: the failure goes to the outer
\* handler, "FAILED" is logged and no later step runs.
C3_FallbackOnceThenFail ==
    IssuedWith(84, "timeout") =>
        /\ Count(88) <= 1
        /\ Count(84) = 1 /\ Count(85) = 0
        /\ (pc # "body" \/ Cur.line > 88) => Count(88) = 1
        /\ \A i \in EventsAt(88) :
              events[i].res \in Failures =>
                  /\ HandledAt(i)
                  /\ InTeardown => Issued(157)

\* the primary wait timed out, the fallback click failed too, the run ended
C3_Witness ==
    /\ pc = "returned"
    /\ IssuedWith(84, "timeout")
    /\ \E i \in EventsAt(88) : events[i].res \in Failures

\* C4: whenever the wait for #ui-id-3 succeeds, the role-based fallback is
\* never invoked in that run, whatever the click on #ui-id-3 then does.
C4_NoFallbackWhenVisible ==
    IssuedWith(84, "ok") => ~Issued(88)

\* C10: the fallback is invoked only after the primary strategy failed with
\* a timeout; when the primary wait or click fails with any other error the
\* fallback is not attempted and the failure goes straight to the outer
\* handler and teardown.
C10_FallbackOnlyOnTimeout ==
    /\ Issued(88) => (IssuedWith(84, "timeout") \/ IssuedWith(85, "timeout"))
    /\ \A i \in EventsAt(84) \cup EventsAt(85) :
          events[i].res = "error" => (~Issued(88) /\ HandledAt(i))

\* the primary click failed with an error that is no timeout, the run ended
C10_Witness ==
    /\ pc = "returned"
    /\ IssuedWith(84, "ok")
    /\ IssuedWith(85, "error")

----------------------------------------------------------------------------
(* Order of the steps *)

\* the calls on the page that belong to step s
PageLines(s) ==
    {Script[k].line : k \in {n \in DOMAIN Script :
                                 Script[n].step = s /\ Script[n].op \in PageOps}}

\* step s has completed when the newest event was issued
Completed(s) ==
    LET ok(line) == \E i \in 1..(Len(events) - 1) :
                        events[i].line = line /\ events[i].res = "ok"
    IN  IF s = 7 THEN (ok(84) /\ ok(85)) \/ ok(88)
        ELSE \A line \in PageLines(s) : ok(line)

\* C8: the steps run in the fixed order 1..15: the statements of the try
\* body are issued one after the other in source order, a call on the page
\* is issued only after every earlier step has completed, and after the
\* first step that fails no further call on the page is issued: the outer
\* handler logs, teardown runs.  The history only grows at its end, so the
\* first two parts are stated of each event as it is issued.
C8_StrictOrder ==
    /\ \A i \in 1..(Len(events) - 1) :
          events[i + 1].step >= 1 =>
              IF events[i].step >= 1 THEN events[i].line < events[i + 1].line
                                     ELSE events[i].line = 42
    /\ (events # <<>> /\ Last.op \in PageOps) =>
          \A s \in 1..15 : s < Last.step => Completed(s)
    /\ \A i \in StepFailures : HandledAt(i)

\* a run that failed at step 12 after step 7 took its fallback
C8_Witness ==
    /\ pc = "returned"
    /\ IssuedWith(88, "ok")
    /\ IssuedWith(125, "timeout")

----------------------------------------------------------------------------
(* The download *)

\* the download directory is in place whenever the Download click or the
\* save is about to be issued, and whenever either has been issued
DirReady ==
    /\ AtBody({"download", "save_as"}) => dirExists
    /\ (Issued(137) \/ Issued(141)) => dirExists

----------------------------------------------------------------------------
(* Outcomes *)

\* C7: no run both saves a file, or logs the success line, and logs a
\* FAILED line.
C7_NoMixedOutcome ==
    ~(Issued(157) /\ (fileSaved \/ Issued(151)))

----------------------------------------------------------------------------
(* The target date *)

\* C6: for every date `now` of the range, compute_tomorrow_mmddyyyy returns
\* the calendar day after it as mm/dd/yyyy, across month ends, year ends and
\* leap days; 2024-01-31 gives 02/01/2024 and 2024-12-31 gives 01/01/2025.
C6_TomorrowFormatted ==
    pc = "date_done" =>
        /\ tomorrow = MMDDYYYY(NextDay(today))
        /\ Len(tomorrow) = 10
        /\ today = <<2024, 1, 31>> =>
              tomorrow = <<"0", "2", "/", "0", "1", "/", "2", "0", "2", "4">>
        /\ today = <<2024, 12, 31>> =>
              tomorrow = <<"0", "1", "/", "0", "1", "/", "2", "0", "2", "5">>

\* the day before a leap day
C6_Witness ==
    /\ pc = "date_done"
    /\ today = <<2024, 2, 28>>
    /\ tomorrow = <<"0", "2", "/", "2", "9", "/", "2", "0", "2", "4">>

\* C9 as stated: what is written into the from-date and to-date inputs is
\* the day after the wall clock's date at run start, however much time
\* passes before the date-filling step; both inputs get the same value.
C9_DayAfterRunStart ==
    /\ fromValue # <<>> => fromValue = MMDDYYYY(NextDay(startDate))
    /\ toValue # <<>> => (toValue = MMDDYYYY(NextDay(startDate)) /\ toValue = fromValue)

\* C9 as amended: what is written into both inputs is the day after the
\* wall clock's date at the moment compute_tomorrow_mmddyyyy is called
\* (line 95, when the date-filling step begins); both inputs get the same
\* value.
C9_DayAfterComputeTime ==
    /\ fromValue # <<>> => fromValue = MMDDYYYY(NextDay(computeDate))
    /\ toValue # <<>> => (toValue = MMDDYYYY(NextDay(computeDate)) /\ toValue = fromValue)

\* both inputs filled in a run during which midnight passed before line 95
C9_Witness ==
    /\ fromValue # <<>>
    /\ toValue # <<>>
    /\ computeDate # startDate

====
